---- MODULE Spec2Model ----
(***************************************************************************)
(* LingSiewWin/EEG: the capture-session state machines of the two React    *)
(* front-end components,                                                   *)
(*   EnhancedEEGDashboard (frontend/components/EEGDashboard.tsx), the      *)
(*     single 5-second capture, and                                        *)
(*   ImageLoveAnalysis (frontend/components/ImageLoveAnalysis.tsx), the    *)
(*     five-stimulus capture,                                              *)
(* each driven by its WebSocket's events, the browser's timers and the     *)
(* user's clicks.  One page, hence one component, is mounted per run.      *)
(*                                                                         *)
(* Time is wall-clock milliseconds held as the remaining delay of every    *)
(* armed timer.  The timer queue runs the callback with the earliest       *)
(* deadline next, and the clock is then at that deadline.  Socket events   *)
(* and clicks interleave freely with the timer callbacks.                  *)
(***************************************************************************)
EXTENDS Integers, Sequences, FiniteSets, TLC

(***************************************************************************)
(* Bounds of the model (not program constants).                            *)
(***************************************************************************)
\* eeg messages delivered to the page over a whole run
MaxSamples == 2
\* eeg messages delivered over a whole run of LiveSpec
MaxLiveSamples == 1
\* samples in a buffer handed to an analysis function on its own
MaxBufLen == 3
\* zero crossings of a channel handed to the band estimate on its own
MaxCrossings == 320
\* frames and stray bytes in the stream handed to the Frame Decoder
MaxSegments == 2
\* The capacity of a consumer's queue, and the samples published in a run
Capacity == 2
MaxPublished == 4
\* The sockets the auto-reconnecting dashboard creates, and the largest
\* totalSamples, in a run
MaxLegacySockets == 3
MaxTotalSamples == 2

(***************************************************************************)
(* Program constants.                                                      *)
(***************************************************************************)
\* EEGDashboard.tsx:286  setTimeout(..., 5000): the capture window
CaptureWindowMs == 5000
\* EEGDashboard.tsx:257  setInterval(..., 1000): the countdown display
CountdownPeriodMs == 1000
\* EEGDashboard.tsx:285  setTimeout(() => analyzeCapture(), 100)
AnalyzeDelayMs == 100
\* EEGDashboard.tsx:249  let countdown = 5
CountdownStart == 5
\* EEGDashboard.tsx:154  .slice(-10): rows of the live sample table
TableRows == 10
\* EEGDashboard.tsx:56   maxDataPoints = 250
maxDataPoints == 250

\* OpenBCI_Setup_Solution.md:39-44: the device's packet, 33 bytes from the
\* start marker 0xA0 to the end marker 0xC0
FrameLen == 33
StartMarker == 160
EndMarker == 192
ChannelFirst == 2
ChannelLast == 25

\* EEGDashboard.js:583  (zeroCrossings / 2) / 5: seconds of capture
LegacyWindowSeconds == 5
\* EEGDashboard.js:525  setTimeout(..., 5000): the capture window
LegacyCaptureWindowMs == 5000
\* EEGDashboard.js:107-110  setTimeout(..., 5000): capture for 5 seconds
LoveWindowMs == 5000
\* ImageLoveAnalysis.tsx:730  wsRef.current = 'stopped' (a socket is named by
\* its place in the list of those created, counted from 1)
Stopped == 0

\* ImageLoveAnalysis.tsx:60-66  images: the five stimuli
NumImages == 5
\* ImageLoveAnalysis.tsx:229  let initialCount = 5
InitialCountStart == 5
\* ImageLoveAnalysis.tsx:240  setInterval(..., 1000): the initial countdown
InitialPeriodMs == 1000
\* ImageLoveAnalysis.tsx:257  let imgCountdown = 5
ImgCountdownStart == 5
\* ImageLoveAnalysis.tsx:275  setInterval(..., 1000): one stimulus window tick
ImgPeriodMs == 1000
\* ImageLoveAnalysis.tsx:273  setTimeout(..., 500): the inter-stimulus gap
NextImageDelayMs == 500

\* The channel vectors an eeg message may carry (channels 1..8, microvolts).
Signals ==
  { <<10, 30, 5, 5, 5, 5, 5, 5>> }

VARIABLES
  page,              \* which page is mounted: "dashboard" | "imageAnalysis"
  timers,            \* armed timers: name -> remaining ms
  nextId,            \* id of the next eeg message to arrive (arrival ordinal)
  lastOp,            \* the capture operation that ran in the last step, or
                     \* "none" when the last step was a socket event, a
                     \* countdown tick or the passage of time
  \* ---- EnhancedEEGDashboard (EEGDashboard.tsx) ----
  wsState,           \* wsRef.current.readyState
  connectionStatus,
  isCapturing, isCapturingRef,
  captureCountdown, countdown,
  capturedData, capturedDataRef,
  loveAnalysis, frequencySummary,
  showResults, showResultsRef,
  samples, chartData,
  inflight,          \* analyze requests (their data) the backend has not
                     \* answered yet, oldest first
  sent,              \* analyze requests sent since the last start request
  alerts,            \* alert()s raised since the last start request
  \* ---- observation of the single capture ----
  windowOpen,        \* between startCapture and the window timer's expiry
  received,          \* samples that arrived while windowOpen, in arrival order
  frozen,            \* capturedDataRef as it was when the window timer fired
  afterReset,        \* since resetToLiveView, until the next startCapture
  \* ---- ImageLoveAnalysis (ImageLoveAnalysis.tsx) ----
  ilaSockets,        \* the sockets the connection effect has created and that
                     \* can still raise an event, oldest first; the last one
                     \* is wsRef.current.  Each holds its readyState and the
                     \* showFinalResults its handlers closed over.
  ilaConnectionStatus,
  isAnalyzing, currentImageIndex, ilaCountdown, showInitialCountdown,
  imageResults, showFinalResults,
  ilaSamples, ilaChartData,
  ilaCapturedDataRef, ilaIsCapturingRef, currentImageRef,
  initialCount,      \* startImageAnalysis's closure variable
  imgCountdown,      \* showNextImage's closure variable
  imageIndex,        \* showNextImage's argument, held by its timer callbacks
  \* ---- observation of the stimulus session ----
  openIndex,         \* the stimulus whose window is open, or NoImage
  arrived,           \* per stimulus, the samples that arrived while its
                     \* window was open (since the last start request)
  opened,            \* the windows opened since the last start request
  \* ---- the analysis functions applied on their own ----
  anIn,              \* the arguments: a record tagged by its kind
  anOut,             \* the function applied and what it returned
  \* ---- the Frame Decoder of the device reader ----
  byteStream,        \* the bytes the device sends over the run
  sentFrames,        \* the offsets in the stream where the device's frames begin
  fed,               \* how many of them the decoder has been handed
  decoder,           \* the decoder: its buffer and what it has done
  \* ---- the Streaming Channel of the server ----
  published,         \* how many samples the producer has published
  consumers,         \* the subscribed consumers: each one's queue, what it
                     \* was sent, and what had been published when it came
  removedAt,         \* the consumers removed: what had been published then
  \* ---- the legacy dashboards ----
  autoReconnect,     \* EEGDashboard with auto-reconnect: its sockets (each
                     \* with the totalSamples its handlers closed over),
                     \* wsRef, its state and the reconnects pending
  legacyCapture      \* EEGDashboard.js with the 5 s capture: its socket, its
                     \* state, and what the pending timeout closed over

dSock == << wsState, connectionStatus >>
dCap  == << isCapturing, isCapturingRef, captureCountdown >>
dBuf  == << capturedData, capturedDataRef >>
dRes  == << loveAnalysis, frequencySummary >>
dShow == << showResults, showResultsRef >>
dLive == << samples, chartData >>
dNet  == << inflight, sent >>
dObs  == << windowOpen, received, frozen, afterReset >>

dashVars ==
  << dSock, dCap, countdown, dBuf, dRes, dShow, dLive, dNet, alerts, dObs >>

iSock == << ilaSockets, ilaConnectionStatus >>
iView == << isAnalyzing, currentImageIndex, ilaCountdown, showInitialCountdown,
            imageResults, showFinalResults >>
iLive == << ilaSamples, ilaChartData >>
iCap  == << ilaCapturedDataRef, ilaIsCapturingRef, currentImageRef >>
iClos == << initialCount, imgCountdown, imageIndex >>
iObs  == << openIndex, arrived, opened >>

ilaVars == << iSock, iView, iLive, iCap, iClos, iObs >>

anVars == << anIn, anOut >>

decVars == << byteStream, sentFrames, fed, decoder >>
chanVars == << published, consumers, removedAt >>
legVars == << autoReconnect, legacyCapture >>

vars ==
  << page, timers, nextId, lastOp, dashVars, ilaVars, anVars, decVars,
     chanVars, legVars >>

(***************************************************************************)
(* Timers: setTimeout / setInterval / clearTimeout / clearInterval.        *)
(***************************************************************************)
NoTimers == [t \in {} |-> 0]

Arm(tm, name, ms) ==
  [t \in (DOMAIN tm) \cup {name} |-> IF t = name THEN ms ELSE tm[t]]

Clear(tm, name) == [t \in (DOMAIN tm) \ {name} |-> tm[t]]

\* The timer is armed and no armed timer is due before it: its callback is
\* the next one the timer queue runs.
Due(name) ==
  /\ name \in DOMAIN timers
  /\ \A t \in DOMAIN timers : timers[name] <= timers[t]

\* The timer queue at the moment the callback of `name` runs: the clock has
\* moved to its deadline.
AtDeadline(name) == [t \in DOMAIN timers |-> timers[t] - timers[name]]

(***************************************************************************)
(* Helpers.                                                                *)
(***************************************************************************)
NullResult == << >>

Last(s) == s[Len(s)]

\* [...prev, x].slice(-n)
SliceLast(s, n) == IF Len(s) <= n THEN s ELSE SubSeq(s, Len(s) - n + 1, Len(s))

\* EEGDashboard.tsx:145-150: the sample built from an eeg message
MakeSample(id, ch) == [id |-> id, channels |-> ch]

(***************************************************************************)
(* EnhancedEEGDashboard: the WebSocket (EEGDashboard.tsx:128-216).         *)
(***************************************************************************)
wsOnOpen ==
  /\ page = "dashboard"
  /\ UNCHANGED << anVars, decVars, chanVars, legVars >>
  /\ wsState = "CONNECTING"
  /\ wsState' = "OPEN"
  /\ connectionStatus' = "Connected"
  /\ lastOp' = "none"
  /\ UNCHANGED << ilaVars, page, timers, nextId, dCap, countdown, dBuf, dRes,
                  dShow, dLive, dNet, alerts, dObs >>

wsOnError ==
  /\ page = "dashboard"
  /\ UNCHANGED << anVars, decVars, chanVars, legVars >>
  /\ wsState \in {"CONNECTING", "OPEN"}
  /\ connectionStatus' = "Error"
  /\ lastOp' = "none"
  /\ UNCHANGED << ilaVars, page, timers, nextId, wsState, dCap, countdown,
                  dBuf, dRes, dShow, dLive, dNet, alerts, dObs >>

wsOnClose ==
  /\ page = "dashboard"
  /\ UNCHANGED << anVars, decVars, chanVars, legVars >>
  /\ wsState \in {"CONNECTING", "OPEN"}
  /\ wsState' = "CLOSED"
  /\ connectionStatus' = "Disconnected"
  /\ lastOp' = "none"
  /\ UNCHANGED << ilaVars, page, timers, nextId, dCap, countdown, dBuf, dRes,
                  dShow, dLive, dNet, alerts, dObs >>

\* PushSample with the sample put at the front (unshift for push).
PushSampleAtFront(buf, sample) == << sample >> \o buf

\* EEGDashboard.tsx:175  capturedDataRef.current.push(sample)
PushSample(buf, sample) == Append(buf, sample)

\* EEGDashboard.tsx:159-162  push the point, shift when over maxDataPoints
PushPoint(data, v) ==
  LET newData == Append(data, v)
  IN  IF Len(newData) > maxDataPoints THEN Tail(newData) ELSE newData

\* ws.onmessage, data.type === 'eeg' (EEGDashboard.tsx:143-177)
wsOnEEG ==
  /\ page = "dashboard"
  /\ UNCHANGED << anVars, decVars, chanVars, legVars >>
  /\ wsState = "OPEN"
  /\ nextId <= MaxSamples
  /\ \E ch \in Signals :
       LET sample == MakeSample(nextId, ch)
       IN  /\ IF ~showResultsRef
              THEN /\ samples' = SliceLast(Append(samples, sample), TableRows)
                   /\ chartData' = PushPoint(chartData, sample.id)
              ELSE UNCHANGED << samples, chartData >>
           /\ IF isCapturingRef
              THEN /\ capturedDataRef' = PushSample(capturedDataRef, sample)
                   /\ capturedData' = Append(capturedData, sample)
              ELSE UNCHANGED << capturedDataRef, capturedData >>
           /\ received' = IF windowOpen THEN Append(received, sample) ELSE received
  /\ nextId' = nextId + 1
  /\ lastOp' = "none"
  /\ UNCHANGED << ilaVars, page, timers, dSock, dCap, countdown, dRes, dShow,
                  dNet, alerts, windowOpen, frozen, afterReset >>

\* ws.onmessage, data.type === 'analysis' (EEGDashboard.tsx:178-188): the
\* backend's reply to the oldest unanswered analyze request.
wsOnAnalysis ==
  /\ page = "dashboard"
  /\ UNCHANGED << anVars, decVars, chanVars, legVars >>
  /\ wsState = "OPEN"
  /\ inflight # << >>
  /\ loveAnalysis' = << Head(inflight) >>
  /\ frequencySummary' = << Head(inflight) >>
  /\ inflight' = Tail(inflight)
  /\ lastOp' = "none"
  /\ UNCHANGED << ilaVars, page, timers, nextId, dSock, dCap, countdown, dBuf,
                  dShow, dLive, sent, alerts, dObs >>

\* wsOnErrorMessage ending the capture in progress as well.
wsOnErrorMessageStopsCapture ==
  /\ page = "dashboard"
  /\ UNCHANGED << anVars, decVars, chanVars, legVars >>
  /\ wsState = "OPEN"
  /\ inflight # << >>
  /\ inflight' = Tail(inflight)
  /\ alerts' = Append(alerts, "Analysis failed")
  /\ showResults' = FALSE
  /\ showResultsRef' = FALSE
  /\ isCapturingRef' = FALSE
  /\ lastOp' = "none"
  /\ UNCHANGED << ilaVars, page, timers, nextId, dSock, isCapturing,
                  captureCountdown, countdown, dBuf, dRes, dLive, sent, dObs >>

\* ws.onmessage, data.type === 'error' (EEGDashboard.tsx:194-199): the
\* backend's other answer to an analyze request.
wsOnErrorMessage ==
  /\ page = "dashboard"
  /\ UNCHANGED << anVars, decVars, chanVars, legVars >>
  /\ wsState = "OPEN"
  /\ inflight # << >>
  /\ inflight' = Tail(inflight)
  /\ alerts' = Append(alerts, "Analysis failed")
  /\ showResults' = FALSE
  /\ showResultsRef' = FALSE
  /\ lastOp' = "none"
  /\ UNCHANGED << ilaVars, page, timers, nextId, dSock, dCap, countdown, dBuf,
                  dRes, dLive, sent, dObs >>

(***************************************************************************)
(* EnhancedEEGDashboard: the capture (EEGDashboard.tsx:229-355).           *)
(***************************************************************************)
\* StartEnabled without the test of isCapturing.
StartEnabledWhileCapturing ==
  /\ ~showResults
  /\ connectionStatus = "Connected"

\* EEGDashboard.tsx:413-415: the start button is rendered when results are not
\* shown and enabled when connected and not capturing.
StartEnabled ==
  /\ ~showResults
  /\ connectionStatus = "Connected"
  /\ ~isCapturing

\* EEGDashboard.tsx:244-246: clear any existing intervals/timeouts
ClearCaptureTimers(tm) == Clear(Clear(tm, "captureTimeout"), "countdownInterval")

\* StartTimers with "clear any existing intervals/timeouts" run after the
\* new timers are armed instead of before.
StartTimersClearedLast(tm) ==
  ClearCaptureTimers(
    Arm(Arm(tm, "countdownInterval", CountdownPeriodMs),
        "captureTimeout", CaptureWindowMs))

\* EEGDashboard.tsx:244-286: the timers startCapture leaves armed
StartTimers(tm) ==
  Arm(Arm(ClearCaptureTimers(tm), "countdownInterval", CountdownPeriodMs),
      "captureTimeout", CaptureWindowMs)

startCapture ==
  /\ page = "dashboard"
  /\ UNCHANGED << anVars, decVars, chanVars, legVars >>
  /\ StartEnabled
  /\ capturedDataRef' = << >>
  /\ isCapturingRef' = TRUE
  /\ isCapturing' = TRUE
  /\ captureCountdown' = CountdownStart
  /\ capturedData' = << >>
  /\ loveAnalysis' = NullResult
  /\ frequencySummary' = NullResult
  /\ showResults' = FALSE
  /\ showResultsRef' = FALSE
  /\ countdown' = CountdownStart
  /\ timers' = StartTimers(timers)
  /\ windowOpen' = TRUE
  /\ received' = << >>
  /\ sent' = << >>
  /\ alerts' = << >>
  /\ afterReset' = FALSE
  /\ lastOp' = "startCapture"
  /\ UNCHANGED << ilaVars, page, nextId, dSock, dLive, inflight, frozen >>

\* EEGDashboard.tsx:250-257: the countdown interval's callback
countdownTick ==
  /\ page = "dashboard"
  /\ UNCHANGED << anVars, decVars, chanVars, legVars >>
  /\ Due("countdownInterval")
  /\ countdown' = countdown - 1
  /\ captureCountdown' = countdown - 1
  /\ timers' = IF countdown - 1 <= 0
               THEN Clear(AtDeadline("countdownInterval"), "countdownInterval")
               ELSE Arm(AtDeadline("countdownInterval"),
                        "countdownInterval", CountdownPeriodMs)
  /\ lastOp' = "none"
  /\ UNCHANGED << ilaVars, page, nextId, dSock, isCapturing, isCapturingRef,
                  dBuf, dRes, dShow, dLive, dNet, alerts, dObs >>

\* NoDataCaptured with the test never true (length < 0 for length === 0).
NoDataNeverCaptured(capturedPackets) == Len(capturedPackets) < 0

\* EEGDashboard.tsx:270  capturedPackets.length === 0
NoDataCaptured(capturedPackets) == Len(capturedPackets) = 0

\* EEGDashboard.tsx:260-286: the window timer's callback
captureTimeoutFires ==
  /\ page = "dashboard"
  /\ UNCHANGED << anVars, decVars, chanVars, legVars >>
  /\ Due("captureTimeout")
  /\ isCapturingRef' = FALSE
  /\ isCapturing' = FALSE
  /\ captureCountdown' = 0
  /\ windowOpen' = FALSE
  /\ frozen' = capturedDataRef
  /\ IF NoDataCaptured(capturedDataRef)
     THEN /\ alerts' = Append(alerts, "No data was captured")
          /\ showResults' = FALSE
          /\ showResultsRef' = FALSE
          /\ timers' = Clear(AtDeadline("captureTimeout"), "captureTimeout")
          /\ UNCHANGED capturedData
     ELSE /\ showResults' = TRUE
          /\ showResultsRef' = TRUE
          /\ capturedData' = capturedDataRef
          /\ timers' = Arm(Clear(AtDeadline("captureTimeout"), "captureTimeout"),
                           "analyzeTimer", AnalyzeDelayMs)
          /\ UNCHANGED alerts
  /\ lastOp' = "captureTimeout"
  /\ UNCHANGED << ilaVars, page, nextId, dSock, countdown, capturedDataRef,
                  dRes, dLive, dNet, received, afterReset >>

\* ResetBuffer with the assignment left out.
ResetBufferKept(buf) == buf

\* EEGDashboard.tsx:295  capturedDataRef.current = []
ResetBuffer(buf) == << >>

\* EEGDashboard.tsx:289-296
resetToLiveView ==
  /\ page = "dashboard"
  /\ UNCHANGED << anVars, decVars, chanVars, legVars >>
  /\ showResults                       \* the button is rendered (395-411)
  /\ showResults' = FALSE
  /\ showResultsRef' = FALSE
  /\ loveAnalysis' = NullResult
  /\ frequencySummary' = NullResult
  /\ capturedData' = << >>
  /\ capturedDataRef' = ResetBuffer(capturedDataRef)
  /\ afterReset' = TRUE
  /\ lastOp' = "resetToLiveView"
  /\ UNCHANGED << ilaVars, page, timers, nextId, dSock, dCap, countdown,
                  dLive, dNet, alerts, windowOpen, received, frozen >>

\* EEGDashboard.tsx:302  !dataToAnalyze || dataToAnalyze.length === 0
NothingToAnalyze(dataToAnalyze) == Len(dataToAnalyze) = 0

\* SocketOpen with the test of readyState left out.
SocketOpenAlways == TRUE

\* EEGDashboard.tsx:328  wsRef.current && readyState === WebSocket.OPEN
SocketOpen == wsState = "OPEN"

\* EEGDashboard.tsx:298-355, run by the 100 ms timer of 283-285
analyzeCapture ==
  /\ page = "dashboard"
  /\ UNCHANGED << anVars, decVars, chanVars, legVars >>
  /\ Due("analyzeTimer")
  /\ timers' = Clear(AtDeadline("analyzeTimer"), "analyzeTimer")
  /\ LET dataToAnalyze == capturedDataRef
     IN  IF NothingToAnalyze(dataToAnalyze)
         THEN /\ alerts' = Append(alerts, "No EEG data was captured")
              /\ showResults' = FALSE
              /\ showResultsRef' = FALSE
              /\ UNCHANGED dNet
         ELSE IF SocketOpen
         THEN /\ sent' = Append(sent, dataToAnalyze)
              /\ inflight' = Append(inflight, dataToAnalyze)
              /\ UNCHANGED << alerts, dShow >>
         ELSE /\ alerts' = Append(alerts, "Connection lost")
              /\ showResults' = FALSE
              /\ showResultsRef' = FALSE
              /\ UNCHANGED dNet
  /\ lastOp' = "analyzeCapture"
  /\ UNCHANGED << ilaVars, page, nextId, dSock, dCap, countdown, dBuf, dRes,
                  dLive, dObs >>

(***************************************************************************)
(* ImageLoveAnalysis: the per-stimulus analysis                            *)
(* (ImageLoveAnalysis.tsx:314-371).  Channel values are whole microvolts;  *)
(* every quotient the code forms is kept exact as numerator/denominator,   *)
(* so a comparison against a threshold is the code's comparison.           *)
(***************************************************************************)
Abs(x) == IF x < 0 THEN 0 - x ELSE x

\* ImageLoveAnalysis.tsx:319-323: the sum of |sample.channels[ch]| over the
\* buffer (ch counted from 1 here); avgAmplitude is this sum over the length.
RECURSIVE SumAbs(_, _)
SumAbs(imageData, ch) ==
  IF imageData = << >> THEN 0
  ELSE Abs(Head(imageData).channels[ch]) + SumAbs(Tail(imageData), ch)

RECURSIVE SumChannels(_, _)
SumChannels(imageData, ch) ==
  IF ch = 0 THEN 0 ELSE SumAbs(imageData, ch) + SumChannels(imageData, ch - 1)

\* ArousalBonus with the tiers reached at the threshold (>= for >).
ArousalBonusAtThreshold(total, n) ==
    (IF total >= 20 * 8 * n THEN 10 ELSE 0)
  + (IF total >= 40 * 8 * n THEN 15 ELSE 0)
  + (IF total >= 60 * 8 * n THEN 15 ELSE 0)

\* ImageLoveAnalysis.tsx:348-350: the tiered bonus; avgAmp = total / (8 n)
ArousalBonus(total, n) ==
    (IF total > 20 * 8 * n THEN 10 ELSE 0)
  + (IF total > 40 * 8 * n THEN 15 ELSE 0)
  + (IF total > 60 * 8 * n THEN 15 ELSE 0)

\* LoveScore with the asymmetry counted whatever its sign (no test of > 0).
LoveScoreSigned(imageData) ==
  LET left  == SumAbs(imageData, 1)
      right == SumAbs(imageData, 2)
      bonus == ArousalBonus(SumChannels(imageData, 8), Len(imageData))
      raw   == IF right + left > 0
               THEN [num |-> (50 + bonus) * (right + left) + 30 * (right - left),
                     den |-> right + left]
               ELSE [num |-> 50 + bonus, den |-> 1]
  IN  IF raw.num > 100 * raw.den THEN [num |-> 100, den |-> 1]
      ELSE IF raw.num < 0 THEN [num |-> 0, den |-> 1]
      ELSE raw

\* ImageLoveAnalysis.tsx:331-352: loveScore before formatting, as num/den.
\* frontalAsymmetry = (right - left) / (right + left); with both sums 0 it is
\* NaN and NaN > 0 is false.
LoveScore(imageData) ==
  LET left  == SumAbs(imageData, 1)
      right == SumAbs(imageData, 2)
      bonus == ArousalBonus(SumChannels(imageData, 8), Len(imageData))
      raw   == IF right + left > 0 /\ right > left
               THEN [num |-> (50 + bonus) * (right + left) + 30 * (right - left),
                     den |-> right + left]
               ELSE [num |-> 50 + bonus, den |-> 1]
  IN  IF raw.num > 100 * raw.den THEN [num |-> 100, den |-> 1]
      ELSE IF raw.num < 0 THEN [num |-> 0, den |-> 1]
      ELSE raw

\* Category with the thresholds exclusive (> for >=).
CategoryAboveThreshold(score) ==
  IF score.num > 80 * score.den THEN "Love at First Sight!"
  ELSE IF score.num > 60 * score.den THEN "Strong Attraction"
  ELSE IF score.num > 40 * score.den THEN "Interested"
  ELSE IF score.num > 20 * score.den THEN "Neutral"
  ELSE "Not Interested"

\* ImageLoveAnalysis.tsx:354-360
Category(score) ==
  IF score.num >= 80 * score.den THEN "Love at First Sight!"
  ELSE IF score.num >= 60 * score.den THEN "Strong Attraction"
  ELSE IF score.num >= 40 * score.den THEN "Interested"
  ELSE IF score.num >= 20 * score.den THEN "Neutral"
  ELSE "Not Interested"

\* ImageLoveAnalysis.tsx:365  loveScore.toFixed(1), held in tenths ("72.3" is
\* 723): the nearest tenth, the larger one when two are equally near.
ToFixed1(score) == (20 * score.num + score.den) \div (2 * score.den)

\* ImageLoveAnalysis.tsx:362-370 (imagePath is images[imageIndex])
analyzeImageData(imageData, idx) ==
  LET score == LoveScore(imageData)
  IN  [ imageIndex |-> idx,
        loveScore  |-> ToFixed1(score),
        category   |-> Category(score),
        packets    |-> Len(imageData) ]

\* The Frame Decoder before its first byte: nothing buffered, nothing
\* scanned.  at counts the bytes scanned past; steps lists what the scan did
\* (a frame committed or a byte skipped, and where); split records that a
\* committed frame began in the buffer left by an earlier chunk.
NewDecoder == [buffer |-> << >>, at |-> 0, steps |-> << >>, split |-> FALSE]

\* Nothing handed to an analysis function, and none applied.
NoArguments == [kind |-> "none"]
NotApplied == [op |-> "none"]

\* The Streaming Channel before anything is published or subscribed
NoConsumers == [c \in { } |-> 0]

InitChannel ==
  /\ published = 0
  /\ consumers = NoConsumers
  /\ removedAt = NoConsumers

\* ImageLoveAnalysis.tsx:671  new WebSocket(...); the handlers close
\* over the totalSamples of the render whose effect created the socket
NewLegacySocket(totalSamples) ==
  [readyState |-> "CONNECTING", totalSamples |-> totalSamples]

\* ImageLoveAnalysis.tsx:661-665 and the effect's first run (726)
NewAutoReconnect ==
  [ sockets |-> << NewLegacySocket(0) >>, wsRef |-> 1, totalSamples |-> 0,
    samples |-> << >>, connectionStatus |-> "Disconnected", reconnects |-> 0 ]

\* EEGDashboard.js:4-11 and the effect's only run (70); received lists the
\* samples that arrived since startCapture while the window was open
NewLegacyCapture ==
  [ readyState |-> "CONNECTING", connectionStatus |-> "Disconnected",
    samples |-> << >>, totalSamples |-> 0, isCapturing |-> FALSE,
    capturedData |-> << >>, loveScore |-> NullResult,
    timeoutCapturedData |-> << >>, received |-> << >> ]

InitLegacy ==
  /\ autoReconnect = NewAutoReconnect
  /\ legacyCapture = NewLegacyCapture

(***************************************************************************)
(* ImageLoveAnalysis: the connection effect (ImageLoveAnalysis.tsx:117-215)*)
(***************************************************************************)
\* ImageLoveAnalysis.tsx:56  currentImageRef = useRef<number>(-1): no stimulus
NoImage == -1

NewSocket(show) == [readyState |-> "CONNECTING", showFinalResults |-> show]

\* ImageLoveAnalysis.tsx:210-214 then 138-208: the effect's cleanup closes
\* wsRef.current when it is OPEN, and the effect connects again; it runs when
\* showFinalResults changes.
RerunEffect(socks, show) ==
  LET cur    == socks[Len(socks)]
      closed == IF cur.readyState = "OPEN"
                THEN [socks EXCEPT ![Len(socks)].readyState = "CLOSING"]
                ELSE socks
      live   == SelectSeq(closed, LAMBDA k : k.readyState # "CLOSED")
  IN  Append(live, NewSocket(show))

\* A click that changes showFinalResults makes the effect open a socket.  The
\* user is taken to click it only once every superseded socket has closed.
ClickAllowed(show) == show = showFinalResults \/ Len(ilaSockets) = 1

SetShowFinalResults(show) ==
  /\ showFinalResults' = show
  /\ ilaSockets' = IF show # showFinalResults
                   THEN RerunEffect(ilaSockets, show)
                   ELSE ilaSockets

\* A socket that is CLOSED raises no further event; only wsRef.current is
\* kept once closed, for the cleanup's readyState test.
RemoveAt(socks, i) ==
  [k \in 1..(Len(socks) - 1) |-> IF k < i THEN socks[k] ELSE socks[k + 1]]

ilaOnOpen(i) ==
  /\ page = "imageAnalysis"
  /\ UNCHANGED << anVars, decVars, chanVars, legVars >>
  /\ ilaSockets[i].readyState = "CONNECTING"
  /\ ilaSockets' = [ilaSockets EXCEPT ![i].readyState = "OPEN"]
  /\ ilaConnectionStatus' = "Connected"
  /\ lastOp' = "none"
  /\ UNCHANGED << page, timers, nextId, dashVars, iView, iLive, iCap, iClos,
                  iObs >>

ilaOnError(i) ==
  /\ page = "imageAnalysis"
  /\ UNCHANGED << anVars, decVars, chanVars, legVars >>
  /\ ilaSockets[i].readyState \in {"CONNECTING", "OPEN"}
  /\ ilaConnectionStatus' = "Error"
  /\ lastOp' = "none"
  /\ UNCHANGED << page, timers, nextId, dashVars, ilaSockets, iView, iLive,
                  iCap, iClos, iObs >>

ilaOnClose(i) ==
  /\ page = "imageAnalysis"
  /\ UNCHANGED << anVars, decVars, chanVars, legVars >>
  /\ ilaSockets[i].readyState \in {"CONNECTING", "OPEN", "CLOSING"}
  /\ ilaSockets' = IF i = Len(ilaSockets)
                   THEN [ilaSockets EXCEPT ![i].readyState = "CLOSED"]
                   ELSE RemoveAt(ilaSockets, i)
  /\ ilaConnectionStatus' = "Disconnected"
  /\ lastOp' = "none"
  /\ UNCHANGED << page, timers, nextId, dashVars, iView, iLive, iCap, iClos,
                  iObs >>

\* ImageLoveAnalysis.tsx:54  useRef<CapturedDataRef>({})
NoBuffers == [k \in {} |-> << >>]

\* capturedDataRef.current[i] || []
Buffer(ref, i) == IF i \in DOMAIN ref THEN ref[i] ELSE << >>

\* CaptureActive without the isCapturingRef test.
CaptureActiveByIndexOnly == currentImageRef >= 0

\* ImageLoveAnalysis.tsx:182  isCapturingRef.current && currentImageRef.current >= 0
CaptureActive == ilaIsCapturingRef /\ currentImageRef >= 0

\* ImageLoveAnalysis.tsx:183-187
CaptureInto(ref, imageIdx, sample) ==
  [k \in (DOMAIN ref) \cup {imageIdx} |->
     IF k = imageIdx THEN Append(Buffer(ref, imageIdx), sample) ELSE ref[k]]

\* ws.onmessage, data.type === 'eeg' (ImageLoveAnalysis.tsx:153-189)
ilaOnEEG(i) ==
  /\ page = "imageAnalysis"
  /\ UNCHANGED << anVars, decVars, chanVars, legVars >>
  /\ ilaSockets[i].readyState = "OPEN"
  /\ nextId <= MaxSamples
  /\ \E ch \in Signals :
       LET sample == MakeSample(nextId, ch)
       IN  /\ IF ~ilaSockets[i].showFinalResults
              THEN /\ ilaSamples' = SliceLast(Append(ilaSamples, sample), TableRows)
                   /\ ilaChartData' = PushPoint(ilaChartData, sample.id)
              ELSE UNCHANGED << ilaSamples, ilaChartData >>
           /\ IF CaptureActive
              THEN ilaCapturedDataRef' =
                     CaptureInto(ilaCapturedDataRef, currentImageRef, sample)
              ELSE UNCHANGED ilaCapturedDataRef
           /\ arrived' = IF openIndex # NoImage
                         THEN [arrived EXCEPT ![openIndex] = Append(@, sample)]
                         ELSE arrived
  /\ nextId' = nextId + 1
  /\ lastOp' = "none"
  /\ UNCHANGED << page, timers, dashVars, iSock, iView, ilaIsCapturingRef,
                  currentImageRef, iClos, openIndex, opened >>

(***************************************************************************)
(* ImageLoveAnalysis: the stimulus session (ImageLoveAnalysis.tsx:217-312) *)
(***************************************************************************)
\* ClearBuffers with the assignment left out.
ClearBuffersKept(ref) == ref

\* ImageLoveAnalysis.tsx:221  capturedDataRef.current = {}
ClearBuffers(ref) == NoBuffers

\* ImageLoveAnalysis.tsx:393-395: the start button
ilaStartEnabled == ilaConnectionStatus = "Connected" /\ ~isAnalyzing

startImageAnalysis ==
  /\ page = "imageAnalysis"
  /\ UNCHANGED << anVars, decVars, chanVars, legVars >>
  /\ ilaStartEnabled
  /\ ClickAllowed(FALSE)
  /\ ilaCapturedDataRef' = ClearBuffers(ilaCapturedDataRef)
  /\ imageResults' = << >>
  /\ SetShowFinalResults(FALSE)
  /\ isAnalyzing' = TRUE
  /\ showInitialCountdown' = TRUE
  /\ ilaCountdown' = InitialCountStart
  /\ initialCount' = InitialCountStart
  /\ timers' = Arm(timers, "countInterval", InitialPeriodMs)
  /\ arrived' = [k \in 0..(NumImages - 1) |-> << >>]
  /\ opened' = << >>
  /\ lastOp' = "startImageAnalysis"
  /\ UNCHANGED << page, nextId, dashVars, ilaConnectionStatus,
                  currentImageIndex, iLive, ilaIsCapturingRef, currentImageRef,
                  imgCountdown, imageIndex, openIndex >>

\* ImageLoveAnalysis.tsx:285  imageData.length === 0
NoImageData(imageData) == Len(imageData) = 0

\* ImageLoveAnalysis.tsx:282-299: one result per stimulus
ResultFor(ref, k) ==
  IF NoImageData(Buffer(ref, k))
  THEN [ imageIndex |-> k, loveScore |-> 0, category |-> "No data",
         packets |-> 0 ]
  ELSE analyzeImageData(Buffer(ref, k), k)

\* ImageLoveAnalysis.tsx:278-312; tm is the timer queue its caller leaves
analyzeAllImages(tm) ==
  /\ imageResults' = [k \in 1..NumImages |-> ResultFor(ilaCapturedDataRef, k - 1)]
  /\ currentImageIndex' = NoImage
  /\ isAnalyzing' = FALSE
  /\ SetShowFinalResults(TRUE)
  /\ timers' = tm
  /\ lastOp' = "analyzeAllImages"
  /\ UNCHANGED << ilaCountdown, iCap, imgCountdown, imageIndex, iObs >>

\* ImageLoveAnalysis.tsx:243-276, up to the arming of the window's interval
showNextImage(tm, idx) ==
  IF idx >= NumImages
  THEN analyzeAllImages(tm)
  ELSE /\ currentImageIndex' = idx
       /\ currentImageRef' = idx
       /\ ilaIsCapturingRef' = TRUE
       /\ ilaCountdown' = ImgCountdownStart
       /\ imgCountdown' = ImgCountdownStart
       /\ imageIndex' = idx
       /\ timers' = Arm(tm, "imgInterval", ImgPeriodMs)
       /\ openIndex' = idx
       /\ opened' = Append(opened, idx)
       /\ lastOp' = "showNextImage"
       /\ UNCHANGED << ilaSockets, isAnalyzing, imageResults, showFinalResults,
                       ilaCapturedDataRef, arrived >>

\* ImageLoveAnalysis.tsx:230-240: the initial countdown's callback
countIntervalTick ==
  /\ page = "imageAnalysis"
  /\ UNCHANGED << anVars, decVars, chanVars, legVars >>
  /\ Due("countInterval")
  /\ initialCount' = initialCount - 1
  /\ IF initialCount - 1 = 0
     THEN /\ showInitialCountdown' = FALSE
          /\ showNextImage(Clear(AtDeadline("countInterval"), "countInterval"), 0)
     ELSE /\ ilaCountdown' = initialCount - 1
          /\ timers' = Arm(AtDeadline("countInterval"),
                           "countInterval", InitialPeriodMs)
          /\ lastOp' = "none"
          /\ UNCHANGED << ilaSockets, isAnalyzing, currentImageIndex,
                          showInitialCountdown, imageResults, showFinalResults,
                          iCap, imgCountdown, imageIndex, iObs >>
  /\ UNCHANGED << page, nextId, dashVars, ilaConnectionStatus, iLive >>

\* ImageLoveAnalysis.tsx:258-275: the stimulus window's interval callback
imgIntervalTick ==
  /\ page = "imageAnalysis"
  /\ UNCHANGED << anVars, decVars, chanVars, legVars >>
  /\ Due("imgInterval")
  /\ imgCountdown' = imgCountdown - 1
  /\ ilaCountdown' = imgCountdown - 1
  /\ IF imgCountdown - 1 = 0
     THEN /\ ilaIsCapturingRef' = FALSE
          /\ timers' = Arm(Clear(AtDeadline("imgInterval"), "imgInterval"),
                           "nextImageTimeout", NextImageDelayMs)
          /\ openIndex' = NoImage
          /\ lastOp' = "windowClosed"
     ELSE /\ timers' = Arm(AtDeadline("imgInterval"), "imgInterval", ImgPeriodMs)
          /\ lastOp' = "none"
          /\ UNCHANGED << ilaIsCapturingRef, openIndex >>
  /\ UNCHANGED << page, nextId, dashVars, iSock, isAnalyzing, currentImageIndex,
                  showInitialCountdown, imageResults, showFinalResults, iLive,
                  ilaCapturedDataRef, currentImageRef, initialCount,
                  imageIndex, arrived, opened >>

\* NextImageIndex stepping by two.
NextImageIndexSkips(idx) == idx + 2

\* ImageLoveAnalysis.tsx:272  showNextImage(imageIndex + 1)
NextImageIndex(idx) == idx + 1

\* ImageLoveAnalysis.tsx:271-273: the inter-stimulus timeout's callback
nextImageFires ==
  /\ page = "imageAnalysis"
  /\ UNCHANGED << anVars, decVars, chanVars, legVars >>
  /\ Due("nextImageTimeout")
  /\ showNextImage(Clear(AtDeadline("nextImageTimeout"), "nextImageTimeout"),
                   NextImageIndex(imageIndex))
  /\ UNCHANGED << page, nextId, dashVars, ilaConnectionStatus,
                  showInitialCountdown, iLive, initialCount >>

\* ImageLoveAnalysis.tsx:579-598: RETURN TO LIVE VIEW, rendered with the
\* results (488: showFinalResults && imageResults.length > 0)
returnToLiveView ==
  /\ page = "imageAnalysis"
  /\ UNCHANGED << anVars, decVars, chanVars, legVars >>
  /\ showFinalResults /\ Len(imageResults) > 0
  /\ ClickAllowed(FALSE)
  /\ SetShowFinalResults(FALSE)
  /\ imageResults' = << >>
  /\ currentImageIndex' = NoImage
  /\ lastOp' = "returnToLiveView"
  /\ UNCHANGED << page, timers, nextId, dashVars, ilaConnectionStatus,
                  isAnalyzing, ilaCountdown, showInitialCountdown, iLive, iCap,
                  iClos, iObs >>

(***************************************************************************)
(* The specification.                                                      *)
(***************************************************************************)
InitDashboard ==
  /\ wsState = "CONNECTING"
  /\ connectionStatus = "Disconnected"
  /\ isCapturing = FALSE
  /\ isCapturingRef = FALSE
  /\ captureCountdown = 0
  /\ countdown = 0
  /\ capturedData = << >>
  /\ capturedDataRef = << >>
  /\ loveAnalysis = NullResult
  /\ frequencySummary = NullResult
  /\ showResults = FALSE
  /\ showResultsRef = FALSE
  /\ samples = << >>
  /\ chartData = << >>
  /\ inflight = << >>
  /\ sent = << >>
  /\ alerts = << >>
  /\ windowOpen = FALSE
  /\ received = << >>
  /\ frozen = << >>
  /\ afterReset = FALSE

InitImageAnalysis ==
  /\ ilaSockets = IF page = "imageAnalysis" THEN << NewSocket(FALSE) >> ELSE << >>
  /\ ilaConnectionStatus = "Disconnected"
  /\ isAnalyzing = FALSE
  /\ currentImageIndex = NoImage
  /\ ilaCountdown = 0
  /\ showInitialCountdown = FALSE
  /\ imageResults = << >>
  /\ showFinalResults = FALSE
  /\ ilaSamples = << >>
  /\ ilaChartData = << >>
  /\ ilaCapturedDataRef = NoBuffers
  /\ ilaIsCapturingRef = FALSE
  /\ currentImageRef = NoImage
  /\ initialCount = 0
  /\ imgCountdown = 0
  /\ imageIndex = NoImage
  /\ openIndex = NoImage
  /\ arrived = [k \in 0..(NumImages - 1) |-> << >>]
  /\ opened = << >>

Init ==
  /\ page \in {"dashboard", "imageAnalysis"}
  /\ timers = NoTimers
  /\ nextId = 1
  /\ lastOp = "none"
  /\ InitDashboard
  /\ InitImageAnalysis
  /\ anIn = NoArguments
  /\ anOut = NotApplied
  /\ byteStream = << >>
  /\ sentFrames = {}
  /\ fed = 0
  /\ decoder = NewDecoder
  /\ InitChannel
  /\ InitLegacy

DashboardNext ==
  \/ wsOnOpen
  \/ wsOnError
  \/ wsOnClose
  \/ wsOnEEG
  \/ wsOnAnalysis
  \/ wsOnErrorMessage
  \/ startCapture
  \/ countdownTick
  \/ captureTimeoutFires
  \/ resetToLiveView
  \/ analyzeCapture

ImageAnalysisNext ==
  \/ \E i \in 1..Len(ilaSockets) : ilaOnOpen(i)
  \/ \E i \in 1..Len(ilaSockets) : ilaOnError(i)
  \/ \E i \in 1..Len(ilaSockets) : ilaOnClose(i)
  \/ \E i \in 1..Len(ilaSockets) : ilaOnEEG(i)
  \/ startImageAnalysis
  \/ countIntervalTick
  \/ imgIntervalTick
  \/ nextImageFires
  \/ returnToLiveView

Next ==
  \/ DashboardNext
  \/ ImageAnalysisNext

Spec == Init /\ [][Next]_vars

(***************************************************************************)
(* The specification under fairness: the browser's timer queue runs the    *)
(* next due callback.  Nothing is assumed of the socket or of the user.    *)
(***************************************************************************)
TimerStep ==
  \/ countdownTick
  \/ captureTimeoutFires
  \/ analyzeCapture
  \/ countIntervalTick
  \/ imgIntervalTick
  \/ nextImageFires

LiveNext == Next /\ nextId' <= MaxLiveSamples + 1

LiveSpec == Init /\ [][LiveNext]_vars /\ WF_vars(TimerStep)

(***************************************************************************)
(* The analysis functions on their own: the arguments are drawn from       *)
(* bounded sets and one function is applied to them.  No page is mounted.  *)
(***************************************************************************)
\* A sample's channels: Fp1, Fp2 and one value for the six others.
Vec(l, r, o) == << l, r, o, o, o, o, o, o >>

AnalysisSignals ==
  { Vec(0, 0, 0), Vec(1, 0, 0), Vec(0, 1, 0), Vec(20, 20, 20),
    Vec(20, 28, 20), Vec(40, 40, 40), Vec(0 - 60, 0 - 60, 0 - 60),
    Vec(10, 90, 70), Vec(1, 2, 0), Vec(34, 169, 0) }

\* The capture buffers of 1..MaxBufLen samples over AnalysisSignals
AnalysisBuffers ==
  UNION { { [k \in 1..n |-> MakeSample(k, f[k])] :
              f \in [1..n -> AnalysisSignals] } : n \in 1..MaxBufLen }

\* The scores of two decimals in [0, 100], in hundredths
ScoreHundredths == 0..(100 * 100)

BufferArguments == { [kind |-> "buffer", data |-> b] : b \in AnalysisBuffers }
ScoreArguments == { [kind |-> "score", hundredths |-> h] : h \in ScoreHundredths }

\* ImageLoveAnalysis.tsx:297  analyzeImageData(imageData, i)
runAnalyzeImageData ==
  /\ anIn.kind = "buffer"
  /\ anOut.op = "none"
  /\ anOut' = [op |-> "analyzeImageData",
               result |-> analyzeImageData(anIn.data, 0)]
  /\ UNCHANGED << page, timers, nextId, lastOp, dashVars, ilaVars, anIn,
                  decVars, chanVars, legVars >>

\* ImageLoveAnalysis.tsx:354-360: the category of a score
runCategory ==
  /\ anIn.kind = "score"
  /\ anOut.op = "none"
  /\ anOut' = [op |-> "category",
               result |-> Category([num |-> anIn.hundredths, den |-> 100])]
  /\ UNCHANGED << page, timers, nextId, lastOp, dashVars, ilaVars, anIn,
                  decVars, chanVars, legVars >>

(***************************************************************************)
(* EEGDashboard.js: analyzeCapture, the analysis run in the browser        *)
(* (EEGDashboard.js:537-646).  toFixed(2) values are held in hundredths.   *)
(***************************************************************************)
\* EEGDashboard.js:556  dataToAnalyze.map(sample => sample.channels[ch] || 0)
ChannelData(dataToAnalyze, ch) ==
  [k \in 1..Len(dataToAnalyze) |-> dataToAnalyze[k].channels[ch]]

\* Crosses with a sample at zero counted as a change of sign.
CrossesOrTouches(prev, cur) ==
  (prev <= 0 /\ cur >= 0) \/ (prev >= 0 /\ cur <= 0)

\* EEGDashboard.js:577-578
Crosses(prev, cur) == (prev < 0 /\ cur > 0) \/ (prev > 0 /\ cur < 0)

\* EEGDashboard.js:575-581
RECURSIVE ZeroCrossings(_)
ZeroCrossings(channelData) ==
  IF Len(channelData) < 2 THEN 0
  ELSE (IF Crosses(channelData[1], channelData[2]) THEN 1 ELSE 0)
       + ZeroCrossings(Tail(channelData))

\* EEGDashboard.js:583  (zeroCrossings / 2) / 5, as num/den
DominantFreq(zeroCrossings) ==
  [num |-> zeroCrossings, den |-> 2 * LegacyWindowSeconds]

BandNames == { "delta", "theta", "alpha", "beta", "gamma" }

\* InBand with the lower ends of the ranges exclusive (> for >=).
InBandAboveLowerEnd(band, f) ==
  CASE band = "delta" -> f.num < 4 * f.den
    [] band = "theta" -> f.num > 4 * f.den /\ f.num < 8 * f.den
    [] band = "alpha" -> f.num > 8 * f.den /\ f.num < 12 * f.den
    [] band = "beta"  -> f.num > 12 * f.den /\ f.num < 30 * f.den
    [] band = "gamma" -> f.num > 30 * f.den

\* EEGDashboard.js:589-593: the tests on dominantFreq
InBand(band, f) ==
  CASE band = "delta" -> f.num < 4 * f.den
    [] band = "theta" -> f.num >= 4 * f.den /\ f.num < 8 * f.den
    [] band = "alpha" -> f.num >= 8 * f.den /\ f.num < 12 * f.den
    [] band = "beta"  -> f.num >= 12 * f.den /\ f.num < 30 * f.den
    [] band = "gamma" -> f.num >= 30 * f.den

\* EEGDashboard.js:589-593: the factor of a band outside its range, in tenths
OtherTenths(band) == IF band \in { "alpha", "beta" } THEN 2 ELSE 1

\* EEGDashboard.js:586-595: the bands of one channel, each as num/den
FrequencyBands(avgAmplitude, dominantFreq) ==
  [band \in BandNames |->
     [num |-> avgAmplitude.num
                * (IF InBand(band, dominantFreq) THEN 8 ELSE OtherTenths(band)),
      den |-> avgAmplitude.den * 10]]

\* EEGDashboard.js:568  avgAmplitude.toFixed(2), in hundredths
ToFixed2(x) == (200 * x.num + x.den) \div (2 * x.den)

\* EEGDashboard.js:561,568,602-606: parseFloat of avgAmplitude.toFixed(2),
\* in hundredths
LegacyAmplitude(dataToAnalyze, ch) ==
  ToFixed2([num |-> SumAbs(dataToAnalyze, ch), den |-> Len(dataToAnalyze)])

RECURSIVE LegacySumAmplitudes(_, _)
LegacySumAmplitudes(dataToAnalyze, ch) ==
  IF ch = 0 THEN 0
  ELSE LegacyAmplitude(dataToAnalyze, ch)
       + LegacySumAmplitudes(dataToAnalyze, ch - 1)

\* EEGDashboard.js:606,617-619: the tiered bonus; avgAmp = hundredths / (8 * 100)
LegacyArousalBonus(hundredths) ==
    (IF hundredths > 20 * 8 * 100 THEN 10 ELSE 0)
  + (IF hundredths > 40 * 8 * 100 THEN 15 ELSE 0)
  + (IF hundredths > 60 * 8 * 100 THEN 15 ELSE 0)

\* EEGDashboard.js:600-621: loveScore before formatting, as num/den
LegacyLoveScore(dataToAnalyze) ==
  LET left  == LegacyAmplitude(dataToAnalyze, 1)
      right == LegacyAmplitude(dataToAnalyze, 2)
      bonus == LegacyArousalBonus(LegacySumAmplitudes(dataToAnalyze, 8))
      raw   == IF right + left > 0 /\ right > left
               THEN [num |-> (50 + bonus) * (right + left) + 30 * (right - left),
                     den |-> right + left]
               ELSE [num |-> 50 + bonus, den |-> 1]
  IN  IF raw.num > 100 * raw.den THEN [num |-> 100, den |-> 1]
      ELSE IF raw.num < 0 THEN [num |-> 0, den |-> 1]
      ELSE raw

\* EEGDashboard.js:624-629
LegacyCategory(score) ==
  IF score.num >= 80 * score.den THEN "Love at First Sight!"
  ELSE IF score.num >= 60 * score.den THEN "Strong Attraction"
  ELSE IF score.num >= 40 * score.den THEN "Interested"
  ELSE IF score.num >= 20 * score.den THEN "Neutral"
  ELSE "Not Interested"

\* EEGDashboard.js:555-596: one channel's pass of the loop; dominantFreq is
\* the loop's local
LegacyChannel(dataToAnalyze, ch) ==
  LET channelData  == ChannelData(dataToAnalyze, ch)
      avgAmplitude == [num |-> SumAbs(dataToAnalyze, ch),
                       den |-> Len(dataToAnalyze)]
      dominantFreq == DominantFreq(ZeroCrossings(channelData))
  IN  [ channel |-> ch, dominantFreq |-> dominantFreq,
        bands |-> FrequencyBands(avgAmplitude, dominantFreq) ]

\* EEGDashboard.js:549-645, past the test for an empty buffer
legacyAnalyzeCapture(dataToAnalyze) ==
  LET score == LegacyLoveScore(dataToAnalyze)
  IN  [ love_score |-> ToFixed1(score),
        category   |-> LegacyCategory(score),
        packets    |-> Len(dataToAnalyze),
        frequencySummary |-> [ch \in 1..8 |-> LegacyChannel(dataToAnalyze, ch)] ]

runLegacyAnalyzeCapture ==
  /\ anIn.kind = "buffer"
  /\ anOut.op = "none"
  /\ anOut' = [op |-> "legacyAnalyzeCapture",
               result |-> legacyAnalyzeCapture(anIn.data)]
  /\ UNCHANGED << page, timers, nextId, lastOp, dashVars, ilaVars, anIn,
                  decVars, chanVars, legVars >>

\* One channel of a capture: its mean amplitude and its count of zero
\* crossings (up to 1249 in a window of 1250 samples)
ChannelAmplitudes == { [num |-> 5, den |-> 1], [num |-> 7, den |-> 2] }

ChannelArguments ==
  { [kind |-> "channel", avgAmplitude |-> a, zeroCrossings |-> z] :
      a \in ChannelAmplitudes, z \in 0..MaxCrossings }

\* EEGDashboard.js:583-595
runFrequencyBands ==
  /\ anIn.kind = "channel"
  /\ anOut.op = "none"
  /\ anOut' = [op |-> "frequencyBands",
               result |-> FrequencyBands(anIn.avgAmplitude,
                                         DominantFreq(anIn.zeroCrossings))]
  /\ UNCHANGED << page, timers, nextId, lastOp, dashVars, ilaVars, anIn,
                  decVars, chanVars, legVars >>

\* The scores of the results handed to the winner selection, in tenths
WinnerScores == { 100, 400, 550, 723 }

ResultLists ==
  { [k \in 1..NumImages |->
       [ imageIndex |-> k - 1, loveScore |-> f[k],
         category |-> Category([num |-> f[k], den |-> 10]), packets |-> 1 ]] :
    f \in [1..NumImages -> WinnerScores] }

ResultArguments == { [kind |-> "results", results |-> rs] : rs \in ResultLists }

\* Better with the later of two equal scores preferred (>= for >).
BetterOrEqual(curr, max) == curr.loveScore >= max.loveScore

\* ImageLoveAnalysis.tsx:303,511  parseFloat(curr.loveScore) > parseFloat(max.loveScore)
Better(curr, max) == curr.loveScore > max.loveScore

\* ImageLoveAnalysis.tsx:302-303,510-511  results.reduce(..., results[0])
RECURSIVE ReduceWinner(_, _)
ReduceWinner(max, rest) ==
  IF rest = << >> THEN max
  ELSE ReduceWinner(IF Better(Head(rest), max) THEN Head(rest) ELSE max,
                    Tail(rest))

Winner(results) == ReduceWinner(results[1], results)

runWinner ==
  /\ anIn.kind = "results"
  /\ anOut.op = "none"
  /\ anOut' = [op |-> "winner", result |-> Winner(anIn.results)]
  /\ UNCHANGED << page, timers, nextId, lastOp, dashVars, ilaVars, anIn,
                  decVars, chanVars, legVars >>

AnalysisArguments ==
  BufferArguments \cup ScoreArguments \cup ResultArguments
    \cup ChannelArguments

AnalysisInit ==
  /\ page = "none"
  /\ timers = NoTimers
  /\ nextId = 1
  /\ lastOp = "none"
  /\ InitDashboard
  /\ InitImageAnalysis
  /\ anIn \in AnalysisArguments
  /\ anOut = NotApplied
  /\ byteStream = << >>
  /\ sentFrames = {}
  /\ fed = 0
  /\ decoder = NewDecoder
  /\ InitChannel
  /\ InitLegacy

AnalysisNext ==
  \/ runAnalyzeImageData
  \/ runCategory
  \/ runWinner
  \/ runLegacyAnalyzeCapture
  \/ runFrequencyBands

AnalysisSpec == AnalysisInit /\ [][AnalysisNext]_vars

(***************************************************************************)
(* The Frame Decoder (spec.md 4.1): a resynchronizing parser of the        *)
(* device's byte stream, handed the stream in chunks of any sizes.         *)
(***************************************************************************)
\* A frame whose 31 bytes between the markers all have one value
FrameOf(payload) ==
  [k \in 1..FrameLen |->
     IF k = 1 THEN StartMarker
     ELSE IF k = FrameLen THEN EndMarker ELSE payload]

\* A frame whose channel payload holds an end-marker-valued byte and, right
\* after it, two start-marker-valued bytes
MarkedFrame ==
  [k \in 1..FrameLen |->
     IF k = 1 THEN StartMarker
     ELSE IF k = FrameLen THEN EndMarker
     ELSE IF k = 11 THEN EndMarker
     ELSE IF k \in { 12, 13 } THEN StartMarker ELSE 7]

\* A frame the device cut off, 11 bytes short of its end
CutFrame == SubSeq(FrameOf(7), 1, FrameLen - 11)

\* A whole frame, and bytes that are no frame
WholeFrame(bytes) == [bytes |-> bytes, frames |-> { 0 }]
Stray(bytes) == [bytes |-> bytes, frames |-> { }]

\* What the device's stream is made of: frames (two with marker-valued bytes
\* in their payload), stray bytes (the markers among them), and a frame cut
\* off and sent again; each with the offsets where its whole frames begin
Segments ==
  { WholeFrame(FrameOf(7)), WholeFrame(MarkedFrame), Stray(<< 7 >>),
    Stray(<< StartMarker >>),
    [bytes |-> CutFrame \o MarkedFrame, frames |-> { Len(CutFrame) }] }

RECURSIVE Concat(_)
Concat(segs) ==
  IF segs = << >>
  THEN Stray(<< >>)
  ELSE LET first == Head(segs)
           rest  == Concat(Tail(segs))
       IN  [bytes  |-> first.bytes \o rest.bytes,
            frames |-> first.frames
                         \cup { Len(first.bytes) + f : f \in rest.frames }]

ByteStreams ==
  { Concat(segs) : segs \in UNION { [1..n -> Segments] : n \in 1..MaxSegments } }

\* IsFrame without the test of the end marker.
IsFrameByStartMarker(buf) ==
  /\ Len(buf) >= FrameLen
  /\ buf[1] = StartMarker

\* IsFrame with the end marker looked for one byte early.
IsFrameEndOffByOne(buf) ==
  /\ Len(buf) >= FrameLen
  /\ buf[1] = StartMarker
  /\ buf[FrameLen - 1] = EndMarker

\* A candidate is committed when the start marker leads and the end marker
\* is at offset 32
IsFrame(buf) ==
  /\ Len(buf) >= FrameLen
  /\ buf[1] = StartMarker
  /\ buf[FrameLen] = EndMarker

\* The scan of the buffer: commit the candidate or advance one byte, until
\* fewer bytes than a frame are left
RECURSIVE Scan(_, _, _)
Scan(buf, at, steps) ==
  IF Len(buf) < FrameLen
  THEN [buffer |-> buf, at |-> at, steps |-> steps]
  ELSE IF IsFrame(buf)
       THEN Scan(SubSeq(buf, FrameLen + 1, Len(buf)), at + FrameLen,
                 Append(steps, [kind |-> "frame", at |-> at,
                                bytes |-> SubSeq(buf, 1, FrameLen)]))
       ELSE Scan(Tail(buf), at + 1,
                 Append(steps, [kind |-> "skip", at |-> at,
                                bytes |-> << Head(buf) >>]))

\* Pending with the bytes left from the chunk before dropped.
PendingDropped(dec, chunk) == chunk

\* Partial frames split across read boundaries are buffered until complete
Pending(dec, chunk) == dec.buffer \o chunk

\* The decoder handed the next n bytes of the stream
Feed(n) ==
  /\ page = "none"
  /\ n \in 1..(Len(byteStream) - fed)
  /\ LET chunk   == SubSeq(byteStream, fed + 1, fed + n)
         pending == Pending(decoder, chunk)
         scanned == Scan(pending, fed + n - Len(pending), decoder.steps)
     IN  decoder' =
           [ buffer |-> scanned.buffer, at |-> scanned.at,
             steps |-> scanned.steps,
             split |-> \/ decoder.split
                       \/ \E k \in (Len(decoder.steps) + 1)..Len(scanned.steps) :
                            /\ scanned.steps[k].kind = "frame"
                            /\ scanned.steps[k].at < fed ]
  /\ fed' = fed + n
  /\ UNCHANGED << page, timers, nextId, lastOp, dashVars, ilaVars, anVars,
                  byteStream, sentFrames, chanVars, legVars >>

DecoderInit ==
  /\ page = "none"
  /\ timers = NoTimers
  /\ nextId = 1
  /\ lastOp = "none"
  /\ InitDashboard
  /\ InitImageAnalysis
  /\ anIn = NoArguments
  /\ anOut = NotApplied
  /\ \E stream \in ByteStreams :
       /\ byteStream = stream.bytes
       /\ sentFrames = stream.frames
  /\ fed = 0
  /\ decoder = NewDecoder
  /\ InitChannel
  /\ InitLegacy

DecoderNext == \E n \in 1..(MaxSegments * FrameLen) : Feed(n)

DecoderSpec == DecoderInit /\ [][DecoderNext]_vars

(***************************************************************************)
(* The Streaming Channel (spec.md 4.3): one producer, any number of        *)
(* consumers, each with a bounded queue that the relay empties by sending. *)
(* Samples are named by their publish number.                              *)
(***************************************************************************)
ConsumerIds == { "a", "b" }

Without(f, c) == [x \in DOMAIN f \ { c } |-> f[x]]

\* A consumer receives what is published after its subscription, no history
Subscribe(c) ==
  /\ page = "none"
  /\ c \notin DOMAIN consumers
  /\ c \notin DOMAIN removedAt
  /\ consumers' = consumers @@
       (c :> [queue |-> << >>, sent |-> << >>, since |-> published,
              overflowed |-> FALSE])
  /\ UNCHANGED << published, removedAt >>
  /\ UNCHANGED << page, timers, nextId, lastOp, dashVars, ilaVars, anVars,
                  decVars, legVars >>

\* Enqueue with the newest item dropped when the queue is full.
EnqueueDropNewest(queue, sample) ==
  IF Len(queue) < Capacity THEN Append(queue, sample) ELSE queue

\* On overflow the oldest unconsumed item of that consumer is dropped
Enqueue(queue, sample) ==
  IF Len(queue) < Capacity THEN Append(queue, sample)
  ELSE Append(Tail(queue), sample)

\* The producer publishes the next sample to every subscribed consumer; it
\* waits for none of them
Publish ==
  /\ page = "none"
  /\ published < MaxPublished
  /\ published' = published + 1
  /\ consumers' =
       [c \in DOMAIN consumers |->
          [consumers[c] EXCEPT
             !.queue = Enqueue(@, published + 1),
             !.overflowed = @ \/ Len(consumers[c].queue) = Capacity]]
  /\ UNCHANGED removedAt
  /\ UNCHANGED << page, timers, nextId, lastOp, dashVars, ilaVars, anVars,
                  decVars, legVars >>

\* The relay sends a consumer the oldest item of its queue
Relay(c) ==
  /\ page = "none"
  /\ c \in DOMAIN consumers
  /\ consumers[c].queue # << >>
  /\ consumers' =
       [consumers EXCEPT ![c].sent = Append(@, Head(consumers[c].queue)),
                         ![c].queue = Tail(@)]
  /\ UNCHANGED << published, removedAt >>
  /\ UNCHANGED << page, timers, nextId, lastOp, dashVars, ilaVars, anVars,
                  decVars, legVars >>

\* Remove with every other consumer's queue thrown away as well.
RemoveAndFlush(c) ==
  [x \in DOMAIN consumers \ { c } |-> [consumers[x] EXCEPT !.queue = << >>]]

\* Closing one consumer tears down only that relay
Remove(c) == Without(consumers, c)

\* A consumer disconnects
Disconnect(c) ==
  /\ page = "none"
  /\ c \in DOMAIN consumers
  /\ consumers' = Remove(c)
  /\ removedAt' = removedAt @@ (c :> published)
  /\ UNCHANGED published
  /\ UNCHANGED << page, timers, nextId, lastOp, dashVars, ilaVars, anVars,
                  decVars, legVars >>

\* A send to a consumer fails: that consumer is dropped
SendFails(c) ==
  /\ page = "none"
  /\ c \in DOMAIN consumers
  /\ consumers[c].queue # << >>
  /\ consumers' = Remove(c)
  /\ removedAt' = removedAt @@ (c :> published)
  /\ UNCHANGED published
  /\ UNCHANGED << page, timers, nextId, lastOp, dashVars, ilaVars, anVars,
                  decVars, legVars >>

ChannelInit ==
  /\ page = "none"
  /\ timers = NoTimers
  /\ nextId = 1
  /\ lastOp = "none"
  /\ InitDashboard
  /\ InitImageAnalysis
  /\ anIn = NoArguments
  /\ anOut = NotApplied
  /\ byteStream = << >>
  /\ sentFrames = { }
  /\ fed = 0
  /\ decoder = NewDecoder
  /\ InitChannel
  /\ InitLegacy

ChannelNext ==
  \/ Publish
  \/ \E c \in ConsumerIds : Subscribe(c)
  \/ \E c \in ConsumerIds : Relay(c)
  \/ \E c \in ConsumerIds : Disconnect(c)
  \/ \E c \in ConsumerIds : SendFails(c)

ChannelSpec == ChannelInit /\ [][ChannelNext]_vars

(***************************************************************************)
(* The legacy EEGDashboard with auto-reconnect                             *)
(* (ImageLoveAnalysis.tsx:658-735).  Its connection effect has the         *)
(* dependency totalSamples, so it runs again whenever that changes.        *)
(***************************************************************************)
\* ImageLoveAnalysis.tsx:669-724  connectWebSocket
connectWebSocket(st) ==
  [st EXCEPT !.sockets = Append(@, NewLegacySocket(st.totalSamples)),
             !.wsRef = Len(st.sockets) + 1]

\* ImageLoveAnalysis.tsx:729-734: the cleanup assigns 'stopped' first; the
\* test that follows reads the readyState of what wsRef.current now is.
EffectCleanup(st) ==
  LET stopped == [st EXCEPT !.wsRef = Stopped]
  IN  IF stopped.wsRef # Stopped
         /\ stopped.sockets[stopped.wsRef].readyState = "OPEN"
      THEN [stopped EXCEPT !.sockets[stopped.wsRef].readyState = "CLOSING"]
      ELSE stopped

\* setTotalSamples: a changed value runs the cleanup and the effect again
\* (ImageLoveAnalysis.tsx:735  [totalSamples])
SetTotalSamples(st, n) ==
  IF n = st.totalSamples THEN st
  ELSE connectWebSocket(EffectCleanup([st EXCEPT !.totalSamples = n]))

Mounted == autoReconnect.wsRef # Stopped

\* ImageLoveAnalysis.tsx:673-676
arOnOpen(i) ==
  /\ page = "autoReconnect"
  /\ autoReconnect.sockets[i].readyState = "CONNECTING"
  /\ autoReconnect' =
       [autoReconnect EXCEPT
          !.sockets[i].readyState = "OPEN",
          !.connectionStatus = IF Mounted THEN "Connected" ELSE @]
  /\ lastOp' = "none"
  /\ UNCHANGED << page, timers, nextId, dashVars, ilaVars, anVars, decVars,
                  chanVars, legacyCapture >>

\* ImageLoveAnalysis.tsx:682-684  data.type === 'status'
arOnStatus(i) ==
  /\ page = "autoReconnect"
  /\ Mounted
  /\ autoReconnect.sockets[i].readyState = "OPEN"
  /\ Len(autoReconnect.sockets) < MaxLegacySockets
  /\ \E total_samples \in 0..MaxTotalSamples :
       autoReconnect' = SetTotalSamples(autoReconnect, total_samples)
  /\ lastOp' = "none"
  /\ UNCHANGED << page, timers, nextId, dashVars, ilaVars, anVars, decVars,
                  chanVars, legacyCapture >>

\* ImageLoveAnalysis.tsx:685-700  data.type === 'eeg_data', one sample
arOnEEGData(i) ==
  /\ page = "autoReconnect"
  /\ Mounted
  /\ autoReconnect.sockets[i].readyState = "OPEN"
  /\ Len(autoReconnect.sockets) < MaxLegacySockets
  /\ autoReconnect.totalSamples < MaxTotalSamples
  /\ LET sampleNum == autoReconnect.sockets[i].totalSamples + 1
         shown == [autoReconnect EXCEPT
                     !.samples = SliceLast(Append(@, sampleNum), TableRows)]
     IN  autoReconnect' = SetTotalSamples(shown, autoReconnect.totalSamples + 1)
  /\ lastOp' = "none"
  /\ UNCHANGED << page, timers, nextId, dashVars, ilaVars, anVars, decVars,
                  chanVars, legacyCapture >>

\* ImageLoveAnalysis.tsx:706-709
arOnError(i) ==
  /\ page = "autoReconnect"
  /\ Mounted
  /\ autoReconnect.sockets[i].readyState \in { "CONNECTING", "OPEN" }
  /\ autoReconnect' = [autoReconnect EXCEPT !.connectionStatus = "Error"]
  /\ lastOp' = "none"
  /\ UNCHANGED << page, timers, nextId, dashVars, ilaVars, anVars, decVars,
                  chanVars, legacyCapture >>

\* ImageLoveAnalysis.tsx:711-721: the close event schedules a reconnect
arOnClose(i) ==
  /\ page = "autoReconnect"
  /\ autoReconnect.sockets[i].readyState \in { "CONNECTING", "OPEN", "CLOSING" }
  /\ autoReconnect' =
       [autoReconnect EXCEPT
          !.sockets[i].readyState = "CLOSED",
          !.connectionStatus = IF Mounted THEN "Disconnected" ELSE @,
          !.reconnects = @ + 1]
  /\ lastOp' = "none"
  /\ UNCHANGED << page, timers, nextId, dashVars, ilaVars, anVars, decVars,
                  chanVars, legacyCapture >>

\* ImageLoveAnalysis.tsx:716-720: the reconnect timeout's callback
arReconnect ==
  /\ page = "autoReconnect"
  /\ autoReconnect.reconnects > 0
  /\ Len(autoReconnect.sockets) < MaxLegacySockets
  /\ LET fired == [autoReconnect EXCEPT !.reconnects = @ - 1]
     IN  autoReconnect' = IF fired.wsRef # Stopped
                          THEN connectWebSocket(fired)
                          ELSE fired
  /\ lastOp' = "none"
  /\ UNCHANGED << page, timers, nextId, dashVars, ilaVars, anVars, decVars,
                  chanVars, legacyCapture >>

\* The component is unmounted: the cleanup runs and the effect does not
arUnmount ==
  /\ page = "autoReconnect"
  /\ Mounted
  /\ autoReconnect' = EffectCleanup(autoReconnect)
  /\ lastOp' = "none"
  /\ UNCHANGED << page, timers, nextId, dashVars, ilaVars, anVars, decVars,
                  chanVars, legacyCapture >>

AutoReconnectNext ==
  \/ \E i \in 1..Len(autoReconnect.sockets) : arOnOpen(i)
  \/ \E i \in 1..Len(autoReconnect.sockets) : arOnStatus(i)
  \/ \E i \in 1..Len(autoReconnect.sockets) : arOnEEGData(i)
  \/ \E i \in 1..Len(autoReconnect.sockets) : arOnError(i)
  \/ \E i \in 1..Len(autoReconnect.sockets) : arOnClose(i)
  \/ arReconnect
  \/ arUnmount

(***************************************************************************)
(* The legacy EEGDashboard.js with the 5 s capture (EEGDashboard.js:3-153).*)
(* Its connection effect runs once (dependencies []), so the message       *)
(* handler is the one of the first render.                                 *)
(***************************************************************************)
\* EEGDashboard.js:8, 45, 79: the isCapturing the message handler reads is the
\* one of the render that created it, the first: useState(false)
HandlerIsCapturing == FALSE

\* EEGDashboard.js:114-152  analyzeLove past the test for no data; avgAmp is
\* totalAmp / count with count = 8 per sample
analyzeLoveScore(data) ==
  LET totalAmp == SumChannels(data, 8)
      count    == 8 * Len(data)
  IN  IF totalAmp < 20 * count
      THEN [score |-> 30, status |-> "Calm/Neutral", packets |-> Len(data)]
      ELSE IF totalAmp < 40 * count
      THEN [score |-> 60, status |-> "Interested", packets |-> Len(data)]
      ELSE IF totalAmp < 60 * count
      THEN [score |-> 80, status |-> "Excited", packets |-> Len(data)]
      ELSE [score |-> 95, status |-> "Very Attracted!", packets |-> Len(data)]

\* EEGDashboard.js:19-22
lcOnOpen ==
  /\ page = "legacyCapture"
  /\ legacyCapture.readyState = "CONNECTING"
  /\ legacyCapture' = [legacyCapture EXCEPT !.readyState = "OPEN",
                                            !.connectionStatus = "Connected"]
  /\ lastOp' = "none"
  /\ UNCHANGED << page, timers, nextId, dashVars, ilaVars, anVars, decVars,
                  chanVars, autoReconnect >>

\* EEGDashboard.js:54-57
lcOnError ==
  /\ page = "legacyCapture"
  /\ legacyCapture.readyState \in { "CONNECTING", "OPEN" }
  /\ legacyCapture' = [legacyCapture EXCEPT !.connectionStatus = "Error"]
  /\ lastOp' = "none"
  /\ UNCHANGED << page, timers, nextId, dashVars, ilaVars, anVars, decVars,
                  chanVars, autoReconnect >>

\* EEGDashboard.js:59-65: no reconnect
lcOnClose ==
  /\ page = "legacyCapture"
  /\ legacyCapture.readyState \in { "CONNECTING", "OPEN" }
  /\ legacyCapture' = [legacyCapture EXCEPT !.readyState = "CLOSED",
                                            !.connectionStatus = "Disconnected"]
  /\ lastOp' = "none"
  /\ UNCHANGED << page, timers, nextId, dashVars, ilaVars, anVars, decVars,
                  chanVars, autoReconnect >>

\* EEGDashboard.js:29-48  data.type === 'eeg'
lcOnEEG ==
  /\ page = "legacyCapture"
  /\ legacyCapture.readyState = "OPEN"
  /\ nextId <= MaxSamples
  /\ \E ch \in Signals :
       LET sample == MakeSample(nextId, ch)
       IN  legacyCapture' =
             [legacyCapture EXCEPT
                !.samples = SliceLast(Append(@, sample), TableRows),
                !.totalSamples = nextId,
                !.capturedData = IF HandlerIsCapturing
                                 THEN Append(@, sample) ELSE @,
                !.received = IF legacyCapture.isCapturing
                             THEN Append(@, sample) ELSE @]
  /\ nextId' = nextId + 1
  /\ lastOp' = "none"
  /\ UNCHANGED << page, timers, dashVars, ilaVars, anVars, decVars, chanVars,
                  autoReconnect >>

\* EEGDashboard.js:101-111 behind the button of 172-173; the timeout's callback
\* closes over the analyzeLove, and so the capturedData, of this render
legacyStartCapture ==
  /\ page = "legacyCapture"
  /\ legacyCapture.connectionStatus = "Connected"
  /\ ~legacyCapture.isCapturing
  /\ legacyCapture' =
       [legacyCapture EXCEPT
          !.isCapturing = TRUE,
          !.capturedData = << >>,
          !.loveScore = NullResult,
          !.timeoutCapturedData = legacyCapture.capturedData,
          !.received = << >>]
  /\ timers' = Arm(timers, "loveTimeout", LoveWindowMs)
  /\ lastOp' = "legacyStartCapture"
  /\ UNCHANGED << page, nextId, dashVars, ilaVars, anVars, decVars, chanVars,
                  autoReconnect >>

\* EEGDashboard.js:107-110 and 113-153: the timeout's callback
analyzeLove ==
  /\ page = "legacyCapture"
  /\ Due("loveTimeout")
  /\ timers' = Clear(AtDeadline("loveTimeout"), "loveTimeout")
  /\ LET capturedData_ == legacyCapture.timeoutCapturedData
     IN  legacyCapture' =
           [legacyCapture EXCEPT
              !.isCapturing = FALSE,
              !.loveScore = IF Len(capturedData_) = 0 THEN @
                            ELSE << analyzeLoveScore(capturedData_) >>]
  /\ lastOp' = "analyzeLove"
  /\ UNCHANGED << page, nextId, dashVars, ilaVars, anVars, decVars, chanVars,
                  autoReconnect >>

LegacyCaptureNext ==
  \/ lcOnOpen
  \/ lcOnError
  \/ lcOnClose
  \/ lcOnEEG
  \/ legacyStartCapture
  \/ analyzeLove

LegacyInit ==
  /\ page \in { "autoReconnect", "legacyCapture" }
  /\ timers = NoTimers
  /\ nextId = 1
  /\ lastOp = "none"
  /\ InitDashboard
  /\ InitImageAnalysis
  /\ anIn = NoArguments
  /\ anOut = NotApplied
  /\ byteStream = << >>
  /\ sentFrames = { }
  /\ fed = 0
  /\ decoder = NewDecoder
  /\ InitChannel
  /\ InitLegacy

LegacyNext ==
  \/ AutoReconnectNext
  \/ LegacyCaptureNext

LegacySpec == LegacyInit /\ [][LegacyNext]_vars

(***************************************************************************)
(* Properties.                                                             *)
(***************************************************************************)

\* C1. Single capture: when the window timer fires, capturedDataRef holds
\* exactly the samples that arrived since startCapture, each once and in
\* arrival order.
C1_BufferAtExpiry == ~windowOpen => frozen = received

C1_Witness == lastOp = "captureTimeout" /\ Len(frozen) = 2

\* C2. Single capture: an empty buffer at the window's expiry returns to the
\* live view, raises the no-data alert, arms no analysis and sends no analyze
\* request, up to the next start request.
C2_EmptyCapture ==
  /\ (~windowOpen /\ frozen = << >>) =>
       /\ ~showResults
       /\ ~showResultsRef
       /\ sent = << >>
       /\ "analyzeTimer" \notin DOMAIN timers
  /\ (lastOp = "captureTimeout" /\ frozen = << >>) =>
       /\ ~isCapturing
       /\ alerts # << >>
       /\ Last(alerts) = "No data was captured"

C2_Witness ==
  /\ lastOp = "captureTimeout"
  /\ frozen = << >>
  /\ alerts = << "No data was captured" >>

\* C3. Stimulus session: a stimulus whose buffer is empty has no entry in
\* imageResults and no score of 0.
C3_NoResultForEmptyBuffer ==
  \A k \in 1..Len(imageResults) :
    /\ Len(Buffer(ilaCapturedDataRef, imageResults[k].imageIndex)) > 0
    /\ imageResults[k].loveScore # 0

\* C4. In both flows a started session reaches the results or the no-data
\* return to the live view, whether or not a sample ever arrives.
DashboardOutcome ==
  /\ ~isCapturing
  /\ \/ showResults
     \/ alerts # << >> /\ Last(alerts) = "No data was captured"

ImageOutcome == ~isAnalyzing /\ ~ilaIsCapturingRef /\ showFinalResults

C4_SessionEnds ==
  (isCapturing \/ isAnalyzing) ~> (DashboardOutcome \/ ImageOutcome)

C4_Witness == lastOp = "analyzeAllImages" /\ ImageOutcome /\ nextId = 1

\* C5. Stimulus session: the windows open in the order 0, 1, ..., N-1, each
\* once; window 0 opens when the initial countdown reaches zero, window i+1
\* when window i is closed and the inter-stimulus timeout fires, and the
\* analysis runs when the timeout after window N-1 fires.
C5_StimulusOrder ==
  /\ [](\A k \in 1..Len(opened) : opened[k] = k - 1)
  /\ [][ (opened' # opened /\ opened' # << >>) =>
           IF opened = << >>
           THEN showInitialCountdown /\ initialCount = 1 /\ Due("countInterval")
           ELSE ~ilaIsCapturingRef /\ openIndex = NoImage
                  /\ Due("nextImageTimeout") ]_vars
  /\ [][ (showFinalResults' /\ ~showFinalResults) =>
           /\ Len(opened) = NumImages
           /\ ~ilaIsCapturingRef
           /\ Due("nextImageTimeout") ]_vars

C5_Witness ==
  /\ lastOp = "analyzeAllImages"
  /\ opened = [k \in 1..NumImages |-> k - 1]

\* C6. Stimulus session: buffer i holds exactly the samples that arrived
\* while window i was open; a sample that arrived with no window open is in
\* no buffer.
C6_BufferPerWindow ==
  /\ DOMAIN ilaCapturedDataRef \subseteq 0..(NumImages - 1)
  /\ \A k \in 0..(NumImages - 1) : Buffer(ilaCapturedDataRef, k) = arrived[k]

C6_Witness ==
  /\ opened = << 0, 1 >>
  /\ openIndex = NoImage
  /\ nextId = 3
  /\ Buffer(ilaCapturedDataRef, 0) = << >>
  /\ Len(Buffer(ilaCapturedDataRef, 1)) = 1

\* C7. Single capture: after resetToLiveView and until the next startCapture
\* no analyze request is sent and no capture-failure alert is raised.
C7_ResetCancelsTimers ==
  [][ (afterReset /\ afterReset') =>
        /\ sent' = sent
        /\ alerts' = alerts \/ Last(alerts') = "Analysis failed" ]_vars

\* C8. Single capture: the data of every analyze request is the buffer as it
\* was when the window timer fired.
C8_HandOffIsFrozenBuffer ==
  [][ (sent' # sent /\ sent' # << >>) => Last(sent') = frozen ]_vars

\* C9. Single capture: resetToLiveView leaves the capture buffer empty and no
\* analysis result or frequency summary held.
C9_ResetClears ==
  lastOp = "resetToLiveView" =>
    /\ capturedDataRef = << >>
    /\ capturedData = << >>
    /\ loveAnalysis = NullResult
    /\ frequencySummary = NullResult
    /\ ~showResults

C9_Witness ==
  /\ lastOp = "resetToLiveView"
  /\ frozen # << >>
  /\ sent # << >>
  /\ inflight = << >>

\* C10. Stimulus session: RETURN TO LIVE VIEW leaves every per-stimulus
\* buffer empty.
C10_ReturnDiscardsBuffers ==
  lastOp = "returnToLiveView" =>
    \A k \in 0..(NumImages - 1) : Buffer(ilaCapturedDataRef, k) = << >>

\* C11. In both flows a capture window opens on an empty buffer, and a buffer
\* never holds a sample received before its window opened: the single
\* capture's buffer holds only samples received since startCapture, and the
\* buffer of a stimulus whose window has not opened in this session is empty.
C11_NoStaleSamples ==
  /\ lastOp = "startCapture" => capturedDataRef = << >>
  /\ windowOpen => capturedDataRef = received
  /\ lastOp = "showNextImage" => Buffer(ilaCapturedDataRef, openIndex) = << >>
  /\ \A k \in 0..(NumImages - 1) :
       (\A j \in 1..Len(opened) : opened[j] # k) =>
         Buffer(ilaCapturedDataRef, k) = << >>

C11_Witness ==
  /\ lastOp = "showNextImage"
  /\ openIndex = 1
  /\ Len(Buffer(ilaCapturedDataRef, 0)) = 1
  /\ showFinalResults = FALSE

C14_CategoryThresholds ==
  anOut.op = "category" =>
    LET h == anIn.hundredths
    IN  /\ anOut.result = "Love at First Sight!" <=> h >= 8000
        /\ anOut.result = "Strong Attraction" <=> (6000 <= h /\ h < 8000)
        /\ anOut.result = "Interested" <=> (4000 <= h /\ h < 6000)
        /\ anOut.result = "Neutral" <=> (2000 <= h /\ h < 4000)
        /\ anOut.result = "Not Interested" <=> h < 2000

C14_Witness ==
  /\ anOut.op = "category"
  /\ anIn.hundredths = 7999
  /\ anOut.result = "Strong Attraction"

\* C12. The winner of a stimulus session is a stimulus of the greatest score,
\* and among the stimuli of that score the one of the lowest index: scores
\* [55.0, 72.3, 72.3, 10.0, 40.0] give index 1.
C12_WinnerIsFirstMaximum ==
  anOut.op = "winner" =>
    LET w == anOut.result
        rs == anIn.results
    IN  /\ \E k \in 1..Len(rs) : rs[k] = w
        /\ \A k \in 1..Len(rs) :
             /\ rs[k].loveScore <= w.loveScore
             /\ rs[k].loveScore = w.loveScore => w.imageIndex <= rs[k].imageIndex

C12_Witness ==
  /\ anOut.op = "winner"
  /\ [k \in 1..NumImages |-> anIn.results[k].loveScore]
       = << 550, 723, 723, 100, 400 >>
  /\ anOut.result.imageIndex = 1

\* C15. For a channel, the band whose range holds the dominant frequency is
\* given avgAmplitude x 0.8 and every other band avgAmplitude x 0.1 or x 0.2;
\* the ranges delta < 4, theta [4, 8), alpha [8, 12), beta [12, 30) and
\* gamma >= 30 partition the frequencies, so exactly one band is given x 0.8.
C15_OneBandDominant ==
  anOut.op = "frequencyBands" =>
    LET a == anIn.avgAmplitude
        z == anIn.zeroCrossings
        Holds(band) ==
          CASE band = "delta" -> z < 40
            [] band = "theta" -> 40 <= z /\ z < 80
            [] band = "alpha" -> 80 <= z /\ z < 120
            [] band = "beta"  -> 120 <= z /\ z < 300
            [] band = "gamma" -> 300 <= z
        Times(band, tenths) ==
          anOut.result[band].num * a.den * 10
            = tenths * a.num * anOut.result[band].den
    IN  /\ \A band \in BandNames :
             IF Holds(band) THEN Times(band, 8)
             ELSE Times(band, 1) \/ Times(band, 2)
        /\ Cardinality({ band \in BandNames : Times(band, 8) }) = 1

C15_Witness ==
  /\ anOut.op = "frequencyBands"
  /\ anIn.zeroCrossings = 300
  /\ anOut.result["gamma"].num = 8 * anIn.avgAmplitude.num

\* C16. The dominant frequency of a channel is the number of pairs of
\* consecutive samples of opposite signs, divided by 2 and by the capture
\* window's duration in seconds.
C16_DominantFrequency ==
  anOut.op = "legacyAnalyzeCapture" =>
    \A ch \in 1..8 :
      LET x == ChannelData(anIn.data, ch)
          pairs == { k \in 2..Len(x) : x[k - 1] * x[k] < 0 }
          f == anOut.result.frequencySummary[ch].dominantFreq
      IN  f.num * 2 * LegacyCaptureWindowMs = Cardinality(pairs) * 1000 * f.den

C16_Witness ==
  /\ anOut.op = "legacyAnalyzeCapture"
  /\ Len(anIn.data) = 3
  /\ anIn.data[1].channels[1] = 20
  /\ anIn.data[2].channels[1] = 0 - 60
  /\ anIn.data[3].channels[1] = 0
  /\ anOut.result.frequencySummary[1].dominantFreq.num = 1

\* C18. For every non-empty buffer the stimulus analysis (analyzeImageData)
\* and the single-capture analysis in the browser (analyzeCapture of
\* EEGDashboard.js) give the same score and the same category.
C18_SameAlgorithm ==
  anOut.op = "legacyAnalyzeCapture" =>
    /\ anOut.result.love_score = analyzeImageData(anIn.data, 0).loveScore
    /\ anOut.result.category = analyzeImageData(anIn.data, 0).category

\* C19. Frame Decoder: every frame emitted is a run of exactly 33 consecutive
\* input bytes that begins with the start marker and has the end marker at
\* offset 32; where the candidate fails either test the decoder advances
\* exactly one byte and scans again.
C19_FramesAreMarkedRuns ==
  \A k \in 1..Len(decoder.steps) :
    LET step == decoder.steps[k]
    IN  /\ step.at = IF k = 1 THEN 0
                     ELSE decoder.steps[k - 1].at
                            + Len(decoder.steps[k - 1].bytes)
        /\ step.at + Len(step.bytes) <= fed
        /\ step.bytes = SubSeq(byteStream, step.at + 1,
                               step.at + Len(step.bytes))
        /\ step.kind = "frame" =>
             /\ Len(step.bytes) = FrameLen
             /\ step.bytes[1] = StartMarker
             /\ step.bytes[FrameLen] = EndMarker
        /\ step.kind = "skip" =>
             /\ Len(step.bytes) = 1
             /\ step.at + FrameLen <= fed
             /\ \/ byteStream[step.at + 1] # StartMarker
                \/ byteStream[step.at + FrameLen] # EndMarker

C19_Witness ==
  /\ Len(decoder.steps) = 2
  /\ decoder.steps[1].kind = "skip"
  /\ decoder.steps[1].bytes = << StartMarker >>
  /\ decoder.steps[2].kind = "frame"
  /\ decoder.steps[2].at = 1

\* C20. Frame Decoder: however the stream is split into chunks, the frames
\* emitted are those emitted when the same bytes come as one chunk; a frame
\* split across chunks is buffered and emitted once complete.
C20_ChunkSizeIndependence ==
  LET whole == Scan(SubSeq(byteStream, 1, fed), 0, << >>)
      IsFrameStep(step) == step.kind = "frame"
  IN  /\ SelectSeq(decoder.steps, IsFrameStep)
          = SelectSeq(whole.steps, IsFrameStep)
      /\ decoder.buffer = whole.buffer

C20_Witness ==
  /\ fed = Len(byteStream)
  /\ decoder.split
  /\ Len(decoder.steps) = 2
  /\ decoder.steps[1].kind = "frame"
  /\ decoder.steps[2].kind = "frame"

\* C21. Frame Decoder, false-resync resistance: a byte with the value of the
\* start marker inside the channel payload of a frame never becomes the start
\* of an emitted frame, for any input stream.
InChannelPayload(at) ==
  \E p \in sentFrames : at \in (p + ChannelFirst)..(p + ChannelLast)

WholeFramesOnly == Len(byteStream) = FrameLen * Cardinality(sentFrames)

Run(from, to) == [k \in 1..(to - from) |-> from + k]

C22_DropOldestOnFull ==
  /\ published < MaxPublished => ENABLED Publish
  /\ \A c \in DOMAIN consumers :
       LET con  == consumers[c]
           held == IF published - con.since < Capacity
                   THEN published - con.since ELSE Capacity
       IN  /\ Len(con.queue) <= Capacity
           /\ con.sent = << >> => con.queue = Run(published - held, published)
           /\ ~con.overflowed =>
                con.sent \o con.queue = Run(con.since, published)

C22_Witness ==
  /\ published > Capacity
  /\ \E slow, fast \in DOMAIN consumers :
       /\ consumers[slow].since = 0
       /\ consumers[slow].sent = << >>
       /\ consumers[slow].overflowed
       /\ consumers[fast].sent = Run(0, published)

\* C23. Streaming Channel, consumer isolation: a consumer that disconnects or
\* fails on send is the only one removed; the producer can go on publishing,
\* and every other consumer keeps its queue and what it was sent, in order.
C23_RemovalIsIsolated ==
  /\ [](published < MaxPublished => ENABLED Publish)
  /\ [][\A c \in DOMAIN consumers \ DOMAIN consumers' :
          /\ published' = published
          /\ \A o \in DOMAIN consumers \ { c } :
               /\ o \in DOMAIN consumers'
               /\ consumers'[o] = consumers[o]]_vars
  /\ [](\A o \in DOMAIN consumers :
          LET all == consumers[o].sent \o consumers[o].queue
          IN  /\ \A k \in 1..(Len(all) - 1) : all[k] < all[k + 1]
              /\ published > consumers[o].since =>
                   /\ all # << >>
                   /\ all[Len(all)] = published)

C23_Witness ==
  \E c \in DOMAIN removedAt, o \in DOMAIN consumers :
    /\ consumers[o].since < removedAt[c]
    /\ removedAt[c] < published
    /\ consumers[o].sent = Run(consumers[o].since, published)

C25_ResultIsOfLatestCapture ==
  loveAnalysis # NullResult =>
    /\ ~afterReset
    /\ sent # << >>
    /\ loveAnalysis[1] = Last(sent)

\* C26. ImageLoveAnalysis: at any time at most one WebSocket created by the
\* component is open or connecting, across every re-run of the connection
\* effect (so that no sample of the server reaches the capture branch over
\* two sockets).
LiveSockets ==
  { i \in 1..Len(ilaSockets) :
      ilaSockets[i].readyState \in { "CONNECTING", "OPEN" } }

C26_OneLiveSocket == Cardinality(LiveSockets) <= 1

\* C27. ImageLoveAnalysis: connectionStatus describes wsRef.current: the
\* close or error event of a socket superseded by a reconnect never leaves the
\* status Disconnected or Error while the current socket is open.
C27_StatusOfCurrentSocket ==
  [][\A i \in 1..(Len(ilaSockets) - 1) :
       (ilaOnClose(i) \/ ilaOnError(i)) =>
         ~ /\ Last(ilaSockets').readyState = "OPEN"
           /\ ilaConnectionStatus' \in { "Disconnected", "Error" }]_vars

\* C28. Both flows: at most one capture session is in progress at a time: a
\* capture runs (a window open, a capture or session timer pending) only while
\* isCapturing resp. isAnalyzing is set, which disables the start button; a
\* start happens only when none is running and the status is Connected, so no
\* capture-window timer is pending when a new one is armed.
SessionTimers == { "countInterval", "imgInterval", "nextImageTimeout" }

C28_OneCaptureSession ==
  /\ [](page = "dashboard" =>
          (("captureTimeout" \in DOMAIN timers \/ windowOpen \/ isCapturingRef)
             => (isCapturing /\ ~StartEnabled)))
  /\ [](page = "imageAnalysis" =>
          ((DOMAIN timers \cap SessionTimers # { } \/ ilaIsCapturingRef
              \/ openIndex # NoImage)
             => (isAnalyzing /\ ~ilaStartEnabled)))
  /\ [][lastOp' = "startCapture" =>
          /\ ~isCapturing
          /\ "captureTimeout" \notin DOMAIN timers
          /\ connectionStatus = "Connected"]_vars
  /\ [][lastOp' = "startImageAnalysis" =>
          /\ ~isAnalyzing
          /\ DOMAIN timers \cap SessionTimers = { }
          /\ ilaConnectionStatus = "Connected"]_vars
  /\ [][Len(opened') > Len(opened) => "imgInterval" \notin DOMAIN timers]_vars

C28_Witness ==
  /\ lastOp = "startCapture"
  /\ frozen # << >>
  /\ isCapturing
  /\ "captureTimeout" \in DOMAIN timers

\* C29. For every non-empty buffer the composite score is at least 50, in the
\* stimulus analysis and in the legacy single-capture analysis alike, so the
\* two lowest categories are never produced.
LowCategories == { "Neutral", "Not Interested" }

C29_ScoreAtLeastFifty ==
  /\ (anOut.op = "analyzeImageData" /\ Len(anIn.data) > 0) =>
       /\ anOut.result.loveScore >= 50 * 10
       /\ anOut.result.category \notin LowCategories
  /\ (anOut.op = "legacyAnalyzeCapture" /\ Len(anIn.data) > 0) =>
       /\ anOut.result.love_score >= 50 * 10
       /\ anOut.result.category \notin LowCategories

C29_Witness ==
  /\ anOut.op = "analyzeImageData"
  /\ SumAbs(anIn.data, 1) > SumAbs(anIn.data, 2)
  /\ anOut.result.loveScore = 50 * 10
  /\ anOut.result.category = "Interested"

\* C30. The reported loveScore (one decimal) and the reported category agree
\* with the thresholds: the category is the top one exactly when the reported
\* score is at least 80.0, the next one from 60.0, the third from 40.0.
C30_ReportedScoreMatchesCategory ==
  anOut.op = "analyzeImageData" =>
    LET tenths   == anOut.result.loveScore
        category == anOut.result.category
    IN  /\ category = "Love at First Sight!" <=> tenths >= 80 * 10
        /\ category = "Strong Attraction" <=>
             (60 * 10 <= tenths /\ tenths < 80 * 10)
        /\ category = "Interested" <=> (40 * 10 <= tenths /\ tenths < 60 * 10)

\* C31. Single capture: a backend error message sets showResults false and
\* leaves the capture buffer, the capturing flag and the pending capture
\* timers as they were.
C31_ErrorReturnsToLive ==
  [][alerts' = Append(alerts, "Analysis failed") =>
       /\ ~showResults'
       /\ ~showResultsRef'
       /\ UNCHANGED << capturedData, capturedDataRef, isCapturing,
                       isCapturingRef, captureCountdown, countdown, timers >>]_vars

C31_Witness ==
  /\ alerts # << >>
  /\ Last(alerts) = "Analysis failed"
  /\ isCapturingRef
  /\ "captureTimeout" \in DOMAIN timers
  /\ capturedDataRef # << >>

\* C32. Live display: while results are shown an arriving sample changes
\* neither the sample table nor the chart; while they are not shown the table
\* holds the most recent samples, ten at most, in arrival order and the chart
\* at most 250 points.
C32_LiveDisplayWindow ==
  /\ [](/\ Len(samples) <= TableRows
        /\ Len(ilaSamples) <= TableRows
        /\ Len(chartData) <= maxDataPoints
        /\ Len(ilaChartData) <= maxDataPoints)
  /\ [][nextId' # nextId =>
          /\ showResults => UNCHANGED << samples, chartData >>
          /\ showFinalResults => UNCHANGED << ilaSamples, ilaChartData >>]_vars

\* C33. Legacy EEGDashboard with auto-reconnect: whenever the component
\* leaves a socket that is open (the cleanup ran, or a reconnect replaced
\* it), that socket is closed; hence at most one socket of the component is
\* open at a time.
C33_SupersededSocketClosed ==
  /\ [](Cardinality({ i \in 1..Len(autoReconnect.sockets) :
                        autoReconnect.sockets[i].readyState = "OPEN" }) <= 1)
  /\ [][(/\ autoReconnect'.wsRef # autoReconnect.wsRef
         /\ autoReconnect.wsRef # Stopped
         /\ autoReconnect.sockets[autoReconnect.wsRef].readyState = "OPEN")
          => autoReconnect'.sockets[autoReconnect.wsRef].readyState # "OPEN"]_vars

\* C34. Legacy EEGDashboard.js: when the 5 s timeout has run, capturedData
\* holds the samples received since startCapture, and when there is at least
\* one a love score computed from exactly those samples is held.
C34_LegacyCaptureScored ==
  lastOp = "analyzeLove" =>
    /\ legacyCapture.capturedData = legacyCapture.received
    /\ legacyCapture.received # << >> =>
         legacyCapture.loveScore
           = << analyzeLoveScore(legacyCapture.received) >>

====
